---- MODULE Spec2Model ----
(***************************************************************************)
(* Reminder-V2: recurring-event instance generation                        *)
(* (services/db/events.py), the two reminder sweeps (reminder_sender.py)   *)
(* and event confirmation, as a state machine over the events and          *)
(* messages tables.                                                        *)
(*                                                                         *)
(* Time.  A datetime is an integer number of ticks since 2024-01-01 00:00  *)
(* (a Monday).  A minute has TicksPerMinute ticks; the part of a datetime  *)
(* below the minute stands for its sub-second (microsecond) part, the part *)
(* datetime.replace(hour, minute, second) leaves alone.  Stored event      *)
(* times are naive wall-clock times of the owner's zone; the clock and the *)
(* message timestamps are UTC.                                             *)
(***************************************************************************)
EXTENDS Integers, Sequences, FiniteSets, TLC

VARIABLES
    events,     \* events table: id -> row
    nextId,     \* next autoincrement id of the events table
    messages,   \* messages table, in insertion order
    now,        \* the wall clock, datetime.utcnow()
    genLog,     \* history: the generate_instances calls made, oldest first
    sweep,      \* the running sweep: kind, captured now, selection, position
    outbox,     \* history: reminders the gateway accepted, oldest first
    attempts,   \* history: per-instance steps of the running sweep
    failedInit, \* history: instances whose last initial attempt failed
    confirmedOk, \* history: ids for which confirm_event returned success
    toolLog,    \* history: the agent tool calls made, oldest first
    workers     \* the invocations that run side by side: worker -> its state

vars == <<events, nextId, messages, now, genLog, sweep, outbox, attempts,
          failedInit, confirmedOk, toolLog, workers>>

----------------------------------------------------------------------------
(* Bounds of the model *)

TicksPerMinute == 2
MaxCalls == 3

(* Program constants *)

NULL == 0
LeadMinutes == 30
EscalationHours == 3
MaxMessages == 5
SpacingMinutes == 30

----------------------------------------------------------------------------
(* datetime arithmetic, as the Python datetime library does it *)

Minutes(n) == n * TicksPerMinute
TicksPerDay == Minutes(24 * 60)

IsLeap(y) == (y % 4 = 0 /\ y % 100 # 0) \/ y % 400 = 0

DaysInMonth(y, m) ==
    IF m = 2 THEN (IF IsLeap(y) THEN 29 ELSE 28)
    ELSE IF m \in {4, 6, 9, 11} THEN 30 ELSE 31

DaysInYear(y) == IF IsLeap(y) THEN 366 ELSE 365

RECURSIVE DaysBeforeYear(_)
DaysBeforeYear(y) ==
    IF y <= 2024 THEN 0 ELSE DaysBeforeYear(y - 1) + DaysInYear(y - 1)

RECURSIVE DaysBeforeMonth(_, _)
DaysBeforeMonth(y, m) ==
    IF m <= 1 THEN 0 ELSE DaysBeforeMonth(y, m - 1) + DaysInMonth(y, m - 1)

\* day number (0 = 2024-01-01) of a calendar date
DayNumber(y, m, d) == DaysBeforeYear(y) + DaysBeforeMonth(y, m) + (d - 1)

DateOf(t) == t \div TicksPerDay          \* day number of a datetime
TimeOfDay(t) == t % TicksPerDay          \* ticks since midnight
HmsOf(t) == TimeOfDay(t) \div TicksPerMinute   \* hour:minute:second part
SubOf(t) == t % TicksPerMinute           \* sub-second part

RECURSIVE YearOfDay(_, _)
YearOfDay(n, y) ==
    IF n < DaysBeforeYear(y + 1) THEN y ELSE YearOfDay(n, y + 1)

RECURSIVE MonthOfDay(_, _, _)
MonthOfDay(n, y, m) ==
    IF n < DaysBeforeYear(y) + DaysBeforeMonth(y, m + 1) THEN m
    ELSE MonthOfDay(n, y, m + 1)

YearOf(t) == YearOfDay(DateOf(t), 2024)
MonthOf(t) == MonthOfDay(DateOf(t), YearOf(t), 1)
DayOf(t) == DateOf(t) - DayNumber(YearOf(t), MonthOf(t), 1) + 1

\* datetime.weekday(): 0 = Monday .. 6 = Sunday; 2024-01-01 is a Monday
Weekday(t) == DateOf(t) % 7

\* the datetime y-m-d hh:mm of the model, with sub-second part sub
DateTime(y, m, d, hh, mm, sub) ==
    DayNumber(y, m, d) * TicksPerDay + Minutes(hh * 60 + mm) + sub

\* datetime.replace(year=.., month=..): keeps day and time of day; a date
\* that does not exist is a ValueError, modelled as the value NULL - 1
ValueError == NULL - 1
ReplaceYearMonth(t, y, m) ==
    IF DayOf(t) > DaysInMonth(y, m) THEN ValueError
    ELSE DayNumber(y, m, DayOf(t)) * TicksPerDay + TimeOfDay(t)

\* datetime.replace(hour=.., minute=.., second=..) from another datetime:
\* the date and the sub-second part of t, the hour:minute:second of a
ReplaceHms(t, a) ==
    DateOf(t) * TicksPerDay + HmsOf(a) * TicksPerMinute + SubOf(t)

----------------------------------------------------------------------------
(* The events table (class Event) *)

Frequencies == {"daily", "weekly", "monthly", "yearly"}

\* a row as add_event stores it
NewEvent(user, description, time, recurring, freq, interval, endDate, days) ==
    [user_id |-> user, description |-> description, event_time |-> time,
     is_message_sent |-> FALSE, is_confirmed |-> FALSE,
     is_recurring |-> recurring,
     recurrence_frequency |-> IF recurring THEN freq ELSE "none",
     recurrence_interval |-> IF recurring THEN interval ELSE NULL,
     recurrence_end_date |-> endDate,
     recurrence_days_of_week |-> days,
     parent_event_id |-> NULL]

\* a row as generate_instances creates it from its template
NewInstance(tpl, id, time) ==
    [user_id |-> tpl.user_id, description |-> tpl.description,
     event_time |-> time,
     is_message_sent |-> FALSE, is_confirmed |-> FALSE,
     is_recurring |-> FALSE, recurrence_frequency |-> "none",
     recurrence_interval |-> 1, recurrence_end_date |-> NULL,
     recurrence_days_of_week |-> {}, parent_event_id |-> id]

IsInstance(tbl, e) == e \in DOMAIN tbl /\ tbl[e].parent_event_id # NULL
IsTemplate(tbl, e) ==
    e \in DOMAIN tbl /\ tbl[e].is_recurring /\ tbl[e].parent_event_id = NULL
InstancesOf(tbl, id) == {e \in DOMAIN tbl : tbl[e].parent_event_id = id}

----------------------------------------------------------------------------
(* generate_instances *)

\* the recurrence rule applied to the cursor date
ShouldCreate(tpl, cur) ==
    CASE tpl.recurrence_frequency = "daily" -> TRUE
      [] tpl.recurrence_frequency = "weekly" ->
            IF tpl.recurrence_days_of_week # {}
            THEN Weekday(cur) \in tpl.recurrence_days_of_week
            ELSE Weekday(cur) = Weekday(tpl.event_time)
      [] tpl.recurrence_frequency = "monthly" ->
            DayOf(cur) = DayOf(tpl.event_time)
      [] tpl.recurrence_frequency = "yearly" ->
            MonthOf(cur) = MonthOf(tpl.event_time)
            /\ DayOf(cur) = DayOf(tpl.event_time)
      [] OTHER -> FALSE

\* a weekly cursor that steps by recurrence_interval days
NextCursorWeeklyByInterval(tpl, cur) ==
    CASE tpl.recurrence_frequency = "daily" ->
            cur + tpl.recurrence_interval * TicksPerDay
      [] tpl.recurrence_frequency = "weekly" ->
            cur + tpl.recurrence_interval * TicksPerDay
      [] tpl.recurrence_frequency = "monthly" ->
            IF MonthOf(cur) = 12
            THEN ReplaceYearMonth(cur, YearOf(cur) + 1, 1)
            ELSE ReplaceYearMonth(cur, YearOf(cur), MonthOf(cur) + 1)
      [] tpl.recurrence_frequency = "yearly" ->
            ReplaceYearMonth(cur, YearOf(cur) + 1, MonthOf(cur))
      [] OTHER -> cur

\* "Move to next interval": the next cursor, or ValueError
NextCursor(tpl, cur) ==
    CASE tpl.recurrence_frequency = "daily" ->
            cur + tpl.recurrence_interval * TicksPerDay
      [] tpl.recurrence_frequency = "weekly" -> cur + TicksPerDay
      [] tpl.recurrence_frequency = "monthly" ->
            IF MonthOf(cur) = 12
            THEN ReplaceYearMonth(cur, YearOf(cur) + 1, 1)
            ELSE ReplaceYearMonth(cur, YearOf(cur), MonthOf(cur) + 1)
      [] tpl.recurrence_frequency = "yearly" ->
            ReplaceYearMonth(cur, YearOf(cur) + 1, MonthOf(cur))
      [] OTHER -> cur

\* an existence check that looks only at the rows of the running call
InstanceExistsSessionOnly(tbl, pending, id, time) ==
    \E i \in 1..Len(pending) : pending[i] = time

\* the existence check: a row of this parent at this time, among the
\* committed rows or the rows this call has added to its session
InstanceExists(tbl, pending, id, time) ==
    \/ \E e \in DOMAIN tbl :
          tbl[e].parent_event_id = id /\ tbl[e].event_time = time
    \/ \E i \in 1..Len(pending) : pending[i] = time

\* an end that does not look at the template's end date
EffectiveEndOfWindow(tpl, endDate) == endDate

\* effective_end_date
EffectiveEnd(tpl, endDate) ==
    IF tpl.recurrence_end_date # NULL /\ tpl.recurrence_end_date < endDate
    THEN tpl.recurrence_end_date ELSE endDate

\* a handler that keeps the rows the session held when the call failed
RolledBackKeepsRows(pending) == pending

\* except Exception: db.session.rollback(): of the rows the call had added
\* to its session, none is left to persist
RolledBack(pending) == <<>>

\* the while loop: the times of the rows the call adds, in order (created),
\* or the exception that ends it; added is what the session held then
RECURSIVE GenLoop(_, _, _, _, _)
GenLoop(tbl, id, cur, effEnd, pending) ==
    IF ~(cur <= effEnd)
    THEN [ok |-> TRUE, created |-> pending, added |-> pending, error |-> ""]
    ELSE IF ShouldCreate(tbl[id], cur)
            /\ ~InstanceExists(tbl, pending, id,
                               ReplaceHms(cur, tbl[id].event_time))
    THEN IF NextCursor(tbl[id], cur) = ValueError
         THEN [ok |-> FALSE,
               created |-> RolledBack(
                   Append(pending, ReplaceHms(cur, tbl[id].event_time))),
               added |-> Append(pending, ReplaceHms(cur, tbl[id].event_time)),
               error |-> "ValueError"]
         ELSE GenLoop(tbl, id, NextCursor(tbl[id], cur), effEnd,
                      Append(pending, ReplaceHms(cur, tbl[id].event_time)))
    ELSE IF NextCursor(tbl[id], cur) = ValueError
         THEN [ok |-> FALSE, created |-> RolledBack(pending),
               added |-> pending, error |-> "ValueError"]
         ELSE GenLoop(tbl, id, NextCursor(tbl[id], cur), effEnd, pending)

\* whether the while loop comes to an end: it is not entered, or its cursor
\* moves (a daily template with recurrence_interval 0 adds timedelta(days=0)
\* for ever)
LoopEnds(tpl, cur, effEnd) == ~(cur <= effEnd) \/ NextCursor(tpl, cur) # cur

\* a call that reports success with nothing created for an event that is not
\* a template
GenOutcomeAcceptsNonTemplate(tbl, id, startDate, endDate) ==
    IF id \notin DOMAIN tbl
    THEN [ok |-> FALSE, created |-> <<>>, added |-> <<>>,
          error |-> "does not exist"]
    ELSE IF ~tbl[id].is_recurring \/ tbl[id].parent_event_id # NULL
    THEN [ok |-> TRUE, created |-> <<>>, added |-> <<>>, error |-> ""]
    ELSE IF ~LoopEnds(tbl[id], startDate, EffectiveEnd(tbl[id], endDate))
    THEN [ok |-> FALSE, created |-> <<>>, added |-> <<>>,
          error |-> "no return"]
    ELSE GenLoop(tbl, id, startDate, EffectiveEnd(tbl[id], endDate), <<>>)

\* the outcome of generate_instances(event_id, start_date, end_date); a call
\* whose loop has no end never returns and never commits: its outcome is
\* no result and no row, with "no return" in the place of the error
GenOutcome(tbl, id, startDate, endDate) ==
    IF id \notin DOMAIN tbl
    THEN [ok |-> FALSE, created |-> <<>>, added |-> <<>>,
          error |-> "does not exist"]
    ELSE IF ~tbl[id].is_recurring
    THEN [ok |-> FALSE, created |-> <<>>, added |-> <<>>,
          error |-> "not a recurring template"]
    ELSE IF tbl[id].parent_event_id # NULL
    THEN [ok |-> FALSE, created |-> <<>>, added |-> <<>>,
          error |-> "an instance"]
    ELSE IF ~LoopEnds(tbl[id], startDate, EffectiveEnd(tbl[id], endDate))
    THEN [ok |-> FALSE, created |-> <<>>, added |-> <<>>,
          error |-> "no return"]
    ELSE GenLoop(tbl, id, startDate, EffectiveEnd(tbl[id], endDate), <<>>)

\* a commit that drops a row whose (parent, time) is already stored, as a
\* unique key on the two columns would
CommitInstancesUnique(tbl, first, id, created) ==
    LET fresh == SelectSeq(created,
                     LAMBDA t : ~\E e \in DOMAIN tbl :
                                    tbl[e].parent_event_id = id
                                    /\ tbl[e].event_time = t)
    IN  [e \in DOMAIN tbl \cup (first..(first + Len(fresh) - 1)) |->
            IF e \in DOMAIN tbl THEN tbl[e]
            ELSE NewInstance(tbl[id], id, fresh[e - first + 1])]

\* the table after db.session.commit() of the created rows
CommitInstances(tbl, first, id, created) ==
    [e \in DOMAIN tbl \cup (first..(first + Len(created) - 1)) |->
        IF e \in DOMAIN tbl THEN tbl[e]
        ELSE NewInstance(tbl[id], id, created[e - first + 1])]


----------------------------------------------------------------------------
(* Owners (class User): the zone of each owner as its offset from UTC in   *)
(* minutes; owner 1 has 'UTC', owner 2 a zone two hours east of it         *)

Users == {1, 2}
UtcOffsetMinutes(user) == IF user = 1 THEN 0 ELSE 2 * 60

\* the stored time read as if it were UTC already
EventTimeAsStored(tbl, e) == tbl[e].event_time

\* event.event_time.replace(tzinfo=user_tz).astimezone(UTC).replace(tzinfo=None)
EventTimeUtc(tbl, e) ==
    tbl[e].event_time - Minutes(UtcOffsetMinutes(tbl[e].user_id))

\* whole minutes, rounded up
CeilMinutes(d) == (d + TicksPerMinute - 1) \div TicksPerMinute

\* int(timedelta.total_seconds() / 60): whole minutes, truncated towards 0
TruncMinutes(d) ==
    IF d >= 0 THEN d \div TicksPerMinute ELSE 0 - ((0 - d) \div TicksPerMinute)

----------------------------------------------------------------------------
(* The messages table (class Message) *)

\* add_message: the table after the call; a missing owner or event, or a
\* sender that is neither 'ai' nor 'user', leaves it as it was
AddMessage(msgs, tbl, user, sentBy, eventId, stamp) ==
    IF sentBy \notin {"ai", "user"} THEN msgs
    ELSE IF user \notin Users THEN msgs
    ELSE IF eventId # NULL /\ eventId \notin DOMAIN tbl THEN msgs
    ELSE Append(msgs, [user_id |-> user, sent_by |-> sentBy,
                       event_id |-> eventId, timestamp |-> stamp])

\* mark_message_sent: the events table after the call
MarkMessageSent(tbl, id) ==
    IF id \notin DOMAIN tbl THEN tbl
    ELSE [tbl EXCEPT ![id].is_message_sent = TRUE]

\* Message.query.filter(event_id == e, sent_by == 'ai'): positions in the table
EventMessages(msgs, e) ==
    {i \in 1..Len(msgs) : msgs[i].event_id = e /\ msgs[i].sent_by = "ai"}

\* timestamp of event_messages[0], the most recent one
LastMessageTime(msgs, e) ==
    CHOOSE t \in {msgs[i].timestamp : i \in EventMessages(msgs, e)} :
        \A i \in EventMessages(msgs, e) : msgs[i].timestamp <= t

----------------------------------------------------------------------------
(* The sweeps of reminder_sender.py *)

\* a set of ids as the list the query returns, in id order
RECURSIVE InIdOrder(_)
InIdOrder(S) ==
    IF S = {} THEN <<>>
    ELSE LET m == CHOOSE x \in S : \A y \in S : x <= y
         IN  <<m>> \o InIdOrder(S \ {m})

\* candidates chosen without looking at parent_event_id
InitialCandidatesAnyParent(tbl) ==
    {e \in DOMAIN tbl : /\ tbl[e].is_confirmed = FALSE
                        /\ tbl[e].is_message_sent = FALSE}

\* candidates chosen without looking at is_confirmed
InitialCandidatesAnyConfirmed(tbl) ==
    {e \in DOMAIN tbl : /\ tbl[e].is_message_sent = FALSE
                        /\ tbl[e].parent_event_id # NULL}

\* candidate_events of the initial sweep
InitialCandidates(tbl) ==
    {e \in DOMAIN tbl : /\ tbl[e].is_confirmed = FALSE
                        /\ tbl[e].is_message_sent = FALSE
                        /\ tbl[e].parent_event_id # NULL}

\* the lead window closed at now
UpcomingEventsFromNow(tbl, n) ==
    {e \in InitialCandidates(tbl) :
        /\ n <= EventTimeUtc(tbl, e)
        /\ EventTimeUtc(tbl, e) <= n + Minutes(LeadMinutes)}

\* upcoming_events: the candidates due in the next 30 minutes
UpcomingEvents(tbl, n) ==
    {e \in InitialCandidates(tbl) :
        /\ n < EventTimeUtc(tbl, e)
        /\ EventTimeUtc(tbl, e) <= n + Minutes(LeadMinutes)}

\* candidate_events of the escalation sweep
EscalationCandidates(tbl) ==
    {e \in DOMAIN tbl : /\ tbl[e].is_confirmed = FALSE
                        /\ tbl[e].is_message_sent = TRUE
                        /\ tbl[e].parent_event_id # NULL}

\* the candidates whose time has come, however long ago
EventsWithMessagesAnyAge(tbl, n) ==
    {e \in EscalationCandidates(tbl) : EventTimeUtc(tbl, e) <= n}

\* events_with_messages: the candidates whose time was in the last 3 hours
EventsWithMessages(tbl, n) ==
    {e \in EscalationCandidates(tbl) :
        /\ n - Minutes(EscalationHours * 60) <= EventTimeUtc(tbl, e)
        /\ EventTimeUtc(tbl, e) <= n}

\* the cap, one too late
UnderCapLate(msgs, e) == ~(Cardinality(EventMessages(msgs, e)) > MaxMessages)

\* the two guards of the escalation loop: the cap, then the spacing
UnderCap(msgs, e) == ~(Cardinality(EventMessages(msgs, e)) >= MaxMessages)

\* the spacing measured from the oldest message instead of the latest
SpacingFromFirst(msgs, e, n) ==
    IF EventMessages(msgs, e) # {}
    THEN \E i \in EventMessages(msgs, e) :
            ~(TruncMinutes(n - msgs[i].timestamp) < SpacingMinutes)
    ELSE TRUE

\* a spacing test that compares the raw difference with the limit, without
\* the division by 60
SpacingInRawUnits(msgs, e, n) ==
    IF EventMessages(msgs, e) # {}
    THEN ~((n - LastMessageTime(msgs, e)) < SpacingMinutes)
    ELSE TRUE

SpacingOk(msgs, e, n) ==
    IF EventMessages(msgs, e) # {}
    THEN ~(TruncMinutes(n - LastMessageTime(msgs, e)) < SpacingMinutes)
    ELSE TRUE

Idle == [kind |-> "idle", now |-> NULL, selected |-> <<>>, queue |-> <<>>]

\* _send_initial_reminders_impl up to its loop: capture now, select
StartInitialSweep ==
    /\ sweep.kind = "idle"
    /\ LET sel == InIdOrder(UpcomingEvents(events, now))
       IN  sweep' = [kind |-> "initial", now |-> now,
                     selected |-> sel, queue |-> sel]
    /\ attempts' = <<>>
    /\ UNCHANGED <<events, nextId, messages, now, genLog, outbox,
                   failedInit, confirmedOk, toolLog, workers>>

\* an iteration that does not look at the gateway's result
InitialOutcomeAnyResult(chatOk, sendOk) ==
    IF ~chatOk THEN "failed" ELSE "sent"

\* what one iteration does with its instance: an exception of the chat
\* model, or a gateway result without success, writes nothing
InitialOutcome(chatOk, sendOk) ==
    IF ~chatOk THEN "failed"
    ELSE IF sendOk THEN "sent" ELSE "failed"

\* a loop that ends at the first failure
RestAfterBreak(queue, outcome) ==
    IF outcome = "failed" THEN <<>> ELSE Tail(queue)

\* the rest of the loop after an iteration: the next instance, whatever
\* the outcome
RestAfter(queue, outcome) == Tail(queue)

\* one iteration of the initial loop: chat model, gateway, add_message,
\* mark_message_sent. storeOk tells whether add_message commits its row or
\* rolls back and returns success False; its result is never looked at,
\* and mark_message_sent is called either way
InitialIteration(chatOk, sendOk, storeOk) ==
    /\ sweep.kind = "initial"
    /\ sweep.queue # <<>>
    /\ LET e == Head(sweep.queue)
           outcome == InitialOutcome(chatOk, sendOk)
           delivered == chatOk /\ sendOk
       IN  /\ IF outcome = "sent"
              THEN /\ messages' = IF storeOk
                                  THEN AddMessage(messages, events,
                                           events[e].user_id, "ai", e, now)
                                  ELSE messages
                   /\ events' = MarkMessageSent(events, e)
              ELSE UNCHANGED <<messages, events>>
           /\ outbox' = IF delivered
                        THEN Append(outbox, [event |-> e, at |-> now,
                                             n |-> 1, kind |-> "initial"])
                        ELSE outbox
           /\ failedInit' = IF delivered THEN failedInit \ {e}
                            ELSE failedInit \cup {e}
           /\ attempts' = Append(attempts,
                                 [event |-> e, outcome |-> outcome])
           /\ sweep' = [sweep EXCEPT !.queue = RestAfter(@, outcome)]
    /\ UNCHANGED <<nextId, now, genLog, confirmedOk, toolLog, workers>>

\* an iteration of the initial loop whose add_message commits
InitialStep(chatOk, sendOk) == InitialIteration(chatOk, sendOk, TRUE)

\* _send_escalating_reminders_impl up to its loop
StartEscalationSweep ==
    /\ sweep.kind = "idle"
    /\ LET sel == InIdOrder(EventsWithMessages(events, now))
       IN  sweep' = [kind |-> "escalating", now |-> now,
                     selected |-> sel, queue |-> sel]
    /\ attempts' = <<>>
    /\ UNCHANGED <<events, nextId, messages, now, genLog, outbox,
                   failedInit, confirmedOk, toolLog, workers>>

\* what one iteration of the escalation loop does with its instance
EscalationOutcome(msgs, e, n, chatOk, sendOk) ==
    IF ~UnderCap(msgs, e) THEN "skipped"
    ELSE IF ~SpacingOk(msgs, e, n) THEN "skipped"
    ELSE IF ~chatOk THEN "failed"
    ELSE IF sendOk THEN "sent" ELSE "failed"

\* a number that counts the reminders sent before, not this one
MessageNumberFromZero(msgs, e) == Cardinality(EventMessages(msgs, e))

\* message_number
MessageNumber(msgs, e) == Cardinality(EventMessages(msgs, e)) + 1

\* one iteration of the escalation loop
EscalationStep(chatOk, sendOk) ==
    /\ sweep.kind = "escalating"
    /\ sweep.queue # <<>>
    /\ LET e == Head(sweep.queue)
           outcome == EscalationOutcome(messages, e, sweep.now,
                                        chatOk, sendOk)
           delivered == outcome # "skipped" /\ chatOk /\ sendOk
       IN  /\ messages' = IF outcome = "sent"
                          THEN AddMessage(messages, events,
                                          events[e].user_id, "ai", e, now)
                          ELSE messages
           /\ outbox' = IF delivered
                        THEN Append(outbox,
                                 [event |-> e, at |-> now,
                                  n |-> MessageNumber(messages, e),
                                  kind |-> "escalating"])
                        ELSE outbox
           /\ attempts' = Append(attempts,
                                 [event |-> e, outcome |-> outcome])
           /\ sweep' = [sweep EXCEPT !.queue = RestAfter(@, outcome)]
    /\ UNCHANGED <<events, nextId, now, genLog, failedInit, confirmedOk,
                   toolLog, workers>>

\* the loop is over: the sweep prints its summary and returns
FinishSweep ==
    /\ sweep.kind # "idle"
    /\ sweep.queue = <<>>
    /\ sweep' = Idle
    /\ attempts' = <<>>
    /\ UNCHANGED <<events, nextId, messages, now, genLog, outbox,
                   failedInit, confirmedOk, toolLog, workers>>

----------------------------------------------------------------------------
(* confirm_event *)

\* a confirm_event that reports success whether or not it found the event
ConfirmSucceedsAlways(tbl, id) == TRUE

\* 'success' of confirm_event(event_id): the event was found
ConfirmSucceeds(tbl, id) == id \in DOMAIN tbl

\* a confirm_event that also clears the event's message flag
ConfirmedResetsSent(tbl, id) ==
    IF id \in DOMAIN tbl
    THEN [tbl EXCEPT ![id].is_confirmed = TRUE, ![id].is_message_sent = FALSE]
    ELSE tbl

\* the table after confirm_event(event_id)
Confirmed(tbl, id) ==
    IF id \in DOMAIN tbl THEN [tbl EXCEPT ![id].is_confirmed = TRUE] ELSE tbl

ConfirmEvent(id) ==
    /\ events' = Confirmed(events, id)
    /\ confirmedOk' = IF ConfirmSucceeds(events, id)
                      THEN confirmedOk \cup {id} ELSE confirmedOk
    /\ UNCHANGED <<nextId, messages, now, genLog, sweep, outbox, attempts,
                   failedInit, toolLog, workers>>


----------------------------------------------------------------------------
(* add_event *)

\* the arguments add_event is called with in the model
EventInputs ==
    LET at(m, d) == DateTime(2024, m, d, 9, 0, 0)
        tpl(t, f, k, endDate, days) ==
            [user |-> 1, time |-> t, recurring |-> TRUE, freq |-> f,
             interval |-> k, endDate |-> endDate, days |-> days]
    IN  { tpl(at(1, 1), "daily", 1, NULL, {}),
          tpl(at(1, 1), "daily", 2, NULL, {}),
          tpl(at(1, 1), "daily", 1, at(1, 5), {}),
          tpl(at(1, 3), "weekly", 1, NULL, {0, 5}),
          tpl(at(1, 3), "weekly", 1, NULL, {}),
          tpl(at(1, 3), "weekly", 2, NULL, {}),
          tpl(at(1, 1), "daily", 0, NULL, {}),
          tpl(at(1, 15), "monthly", 1, NULL, {}),
          tpl(at(1, 31), "monthly", 1, NULL, {}),
          tpl(at(2, 29), "yearly", 1, NULL, {}),
          [user |-> 1, time |-> at(1, 2), recurring |-> FALSE,
           freq |-> "", interval |-> 1, endDate |-> NULL, days |-> {}],
          [user |-> 3, time |-> at(1, 2), recurring |-> TRUE,
           freq |-> "daily", interval |-> 1, endDate |-> NULL, days |-> {}],
          [user |-> 1, time |-> at(1, 2), recurring |-> TRUE,
           freq |-> "hourly", interval |-> 1, endDate |-> NULL, days |-> {}],
          [user |-> 1, time |-> at(1, 2), recurring |-> TRUE,
           freq |-> "", interval |-> 1, endDate |-> NULL, days |-> {}],
          [user |-> 1, time |-> at(1, 2), recurring |-> FALSE,
           freq |-> "daily", interval |-> 1, endDate |-> NULL, days |-> {}] }

\* an add_event that validates the owner only
AddEventAcceptsAnyFrequency(in) == in.user \in Users

\* whether add_event accepts the arguments
AddEventAccepts(in) ==
    /\ in.user \in Users
    /\ in.recurring => (in.freq # "" /\ in.freq \in Frequencies)

\* the add_event and generate_instances calls made so far
CallsMade ==
    Len(genLog)
      + Cardinality({e \in DOMAIN events : events[e].parent_event_id = NULL})

AddEvent(in) ==
    /\ CallsMade < MaxCalls
    /\ IF AddEventAccepts(in)
       THEN /\ events' = [e \in DOMAIN events \cup {nextId} |->
                            IF e = nextId
                            THEN NewEvent(in.user, "text", in.time,
                                     in.recurring, in.freq, in.interval,
                                     in.endDate, in.days)
                            ELSE events[e]]
            /\ nextId' = nextId + 1
       ELSE UNCHANGED <<events, nextId>>
    /\ UNCHANGED <<messages, now, genLog, sweep, outbox, attempts,
                   failedInit, confirmedOk, toolLog, workers>>

----------------------------------------------------------------------------
(* generate_instances as one call *)

\* the windows generate_instances is called with in the model
GenWindows ==
    LET day(m, d) == DateTime(2024, m, d, 0, 0, 0)
    IN  { <<day(1, 1), day(1, 3)>>, <<day(1, 4), day(1, 7)>>,
          <<day(1, 1), day(1, 7)>>, <<day(1, 1) + 1, day(1, 3)>>,
          <<day(1, 1) + Minutes(12 * 60), day(1, 7)>>,
          <<day(1, 15), day(3, 5)>>, <<day(1, 31), day(3, 5)>>,
          <<day(2, 29), day(3, 5)>> }

\* the (parent, time) keys of the instances in the table
InstanceKeys(tbl) ==
    {<<tbl[e].parent_event_id, tbl[e].event_time>> :
        e \in {x \in DOMAIN tbl : tbl[x].parent_event_id # NULL}}

GenerateInstances(id, startDate, endDate) ==
    /\ CallsMade < MaxCalls
    /\ LET out == GenOutcome(events, id, startDate, endDate)
           tbl == CommitInstances(events, nextId, id, out.created)
       IN  /\ events' = tbl
           /\ nextId' = nextId + Len(out.created)
           /\ genLog' = Append(genLog,
                 [id |-> id, startDate |-> startDate, endDate |-> endDate,
                  template |-> IsTemplate(events, id),
                  ok |-> out.ok, error |-> out.error,
                  added |-> Len(out.added),
                  count |-> Len(out.created),
                  created |-> out.created,
                  keys |-> InstanceKeys(tbl)])
    /\ UNCHANGED <<messages, now, sweep, outbox, attempts, failedInit,
                   confirmedOk, toolLog, workers>>

\* the ids generate_instances is called with: the first two ids, each of
\* which is in turn a missing id, a one-time event, a template or an instance
GenIds == {1, 2}

\* the windows tried with an id: every window for a template, one window
\* for an id the call rejects
GenWindowsFor(id) ==
    IF IsTemplate(events, id) THEN GenWindows
    ELSE {w \in GenWindows : w[1] = DateTime(2024, 1, 1, 0, 0, 0)
                             /\ w[2] = DateTime(2024, 1, 3, 0, 0, 0)}

InitGen ==
    /\ events = <<>>
    /\ nextId = 1
    /\ messages = <<>>
    /\ now = DateTime(2024, 1, 1, 0, 0, 0)
    /\ genLog = <<>>
    /\ sweep = Idle
    /\ outbox = <<>>
    /\ attempts = <<>>
    /\ failedInit = {}
    /\ confirmedOk = {}
    /\ toolLog = <<>>
    /\ workers = <<>>

NextGen ==
    \/ \E in \in EventInputs : AddEvent(in)
    \/ \E id \in GenIds : \E w \in GenWindowsFor(id) :
          GenerateInstances(id, w[1], w[2])

GenSpec == InitGen /\ [][NextGen]_vars


----------------------------------------------------------------------------
(* The sweeps at work: the clock, the stored rows they start from *)

Clock(hh, mm, sub) == DateTime(2024, 1, 10, hh, mm, sub)

\* rows the sweeps start from: two templates with one instance each due at
\* about 09:00 UTC on 2024-01-10 (owner 2 is two hours ahead of UTC and its
\* instance carries a sub-second part), and a one-time event
StoredEvents ==
    LET t1 == NewEvent(1, "text", DateTime(2024, 1, 1, 9, 0, 0), TRUE,
                       "daily", 1, NULL, {})
        t3 == NewEvent(2, "text", DateTime(2024, 1, 1, 11, 0, 0), TRUE,
                       "daily", 1, NULL, {})
    IN  <<t1, NewInstance(t1, 1, Clock(9, 0, 0)),
          t3, NewInstance(t3, 3, Clock(11, 0, 1)),
          NewEvent(1, "text", Clock(9, 0, 0), FALSE, "", 1, NULL, {})>>

\* the rows the sweeps start from: the stored rows and an instance of owner 2
\* with the stored time of instance 2 of owner 1
SweepEvents ==
    Append(StoredEvents, NewInstance(StoredEvents[3], 3, Clock(9, 0, 0)))

\* an agent reply that belongs to no event
StoredMessages ==
    <<[user_id |-> 1, sent_by |-> "ai", event_id |-> NULL,
       timestamp |-> Clock(8, 0, 0)]>>

\* the instants at which something happens in the model
SweepClock ==
    {Clock(8, 29, 0), Clock(8, 30, 0), Clock(8, 45, 0), Clock(9, 0, 0),
     Clock(9, 0, 1), Clock(9, 15, 0), Clock(9, 30, 0)}

\* time passes
Tick(clock) ==
    /\ \E t \in clock : t > now /\ now' = t
    /\ UNCHANGED <<events, nextId, messages, genLog, sweep, outbox,
                   attempts, failedInit, confirmedOk, toolLog, workers>>

\* the ids confirm_event is called with: the instances and a missing id
ConfirmIds == {e \in DOMAIN events : events[e].parent_event_id # NULL}
              \cup {nextId}

Init ==
    /\ events = SweepEvents
    /\ nextId = Len(SweepEvents) + 1
    /\ messages = StoredMessages
    /\ now = Clock(8, 29, 0)
    /\ genLog = <<>>
    /\ sweep = Idle
    /\ outbox = <<>>
    /\ attempts = <<>>
    /\ failedInit = {}
    /\ confirmedOk = {}
    /\ toolLog = <<>>
    /\ workers = <<>>

Next ==
    \/ Tick(SweepClock)
    \/ StartInitialSweep
    \/ \E chatOk \in BOOLEAN : \E sendOk \in BOOLEAN :
          InitialStep(chatOk, sendOk)
    \/ StartEscalationSweep
    \/ \E chatOk \in BOOLEAN : \E sendOk \in BOOLEAN :
          EscalationStep(chatOk, sendOk)
    \/ FinishSweep
    \/ \E id \in ConfirmIds : ConfirmEvent(id)

Spec == Init /\ [][Next]_vars

----------------------------------------------------------------------------
(* One instance through its whole life: from before its lead window to     *)
(* after its escalation window                                             *)

MaxLifeSlots == 22

\* every tenth minute from 08:30, and instants next to the guards' limits
LifeClock ==
    {Clock(8, 30, 0) + Minutes(10 * k) : k \in 0..MaxLifeSlots}
    \cup {Clock(9, 29, 1), Clock(9, 31, 0), Clock(12, 0, 1)}

\* the stored rows with the instance of owner 2 already confirmed
LifeEvents == [StoredEvents EXCEPT ![4].is_confirmed = TRUE]

LifeInit ==
    /\ events = LifeEvents
    /\ nextId = Len(LifeEvents) + 1
    /\ messages = StoredMessages
    /\ now = Clock(8, 20, 0)
    /\ genLog = <<>>
    /\ sweep = Idle
    /\ outbox = <<>>
    /\ attempts = <<>>
    /\ failedInit = {}
    /\ confirmedOk = {}
    /\ toolLog = <<>>
    /\ workers = <<>>

LifeNext ==
    \/ Tick(LifeClock)
    \/ StartInitialSweep
    \/ \E chatOk \in BOOLEAN : \E sendOk \in BOOLEAN :
          InitialStep(chatOk, sendOk)
    \/ StartEscalationSweep
    \/ \E chatOk \in BOOLEAN : \E sendOk \in BOOLEAN :
          EscalationStep(chatOk, sendOk)
    \/ FinishSweep
    \/ \E id \in {2, nextId} : ConfirmEvent(id)

LifeSpec == LifeInit /\ [][LifeNext]_vars

----------------------------------------------------------------------------
(* The agent's tools (services/agent_tools.py) that read or write events *)

MaxToolCalls == 2

\* an entry of the tool log
ToolCall(tool, arg, time, ok, listed) ==
    [tool |-> tool, arg |-> arg, time |-> time, ok |-> ok, listed |-> listed]

\* confirm_reminder(event_id): confirm_event and a reply that tells its result
ConfirmReminder(id) ==
    /\ Len(toolLog) < MaxToolCalls
    /\ events' = Confirmed(events, id)
    /\ confirmedOk' = IF ConfirmSucceeds(events, id)
                      THEN confirmedOk \cup {id} ELSE confirmedOk
    /\ toolLog' = Append(toolLog,
          ToolCall("confirm_reminder", id, NULL,
                   ConfirmSucceeds(events, id), {}))
    /\ UNCHANGED <<nextId, messages, now, genLog, sweep, outbox, attempts,
                   failedInit, workers>>

\* the names services/db/events.py defines
EventsModule ==
    {"Event", "add_event", "generate_instances", "get_upcoming_events",
     "get_events_needing_message", "mark_message_sent", "confirm_event"}

\* update_reminder(event_id, event_time=time): its first statement imports
\* delete_future_instances and update_recurring_event from
\* services.db.events, which defines neither: the call ends there with an
\* ImportError and nothing is read or written
UpdateReminder(id, time) ==
    /\ Len(toolLog) < MaxToolCalls
    /\ ~({"delete_future_instances", "update_recurring_event"}
            \subseteq EventsModule)
    /\ toolLog' = Append(toolLog,
          ToolCall("update_reminder", id, time, FALSE, {}))
    /\ UNCHANGED <<events, nextId, messages, now, genLog, sweep, outbox,
                   attempts, failedInit, confirmedOk, workers>>

\* the rows get_pending_reminders lists for the owner
PendingEvents(tbl, user) ==
    {e \in DOMAIN tbl :
        /\ tbl[e].user_id = user
        /\ tbl[e].is_confirmed = FALSE
        /\ tbl[e].is_message_sent = TRUE
        /\ tbl[e].parent_event_id # NULL}

\* get_pending_reminders() with the owner's id in the agent state
GetPendingReminders(user) ==
    /\ Len(toolLog) < MaxToolCalls
    /\ toolLog' = Append(toolLog,
          ToolCall("get_pending_reminders", user, NULL, TRUE,
                   PendingEvents(events, user)))
    /\ UNCHANGED <<events, nextId, messages, now, genLog, sweep, outbox,
                   attempts, failedInit, confirmedOk, workers>>

\* User.is_registered: first name, last name, timezone and language are all
\* set, as they are for the owners of the model
IsRegistered(user) == user \in Users

\* the is_registered argument of ReminderAgent.process_message as
\* process_incoming_message calls it: the call does not pass it, so it has
\* its default
RegisteredArgument(user) == FALSE

\* the agent process_message selects
SelectAgent(isRegistered) ==
    IF isRegistered THEN "full" ELSE "registration"

\* process_incoming_message for a stored user.  fail tells where the call
\* breaks: "none"; "agent", an exception inside ReminderAgent.process_message,
\* which catches it and returns the apology as its answer; "get_agent", an
\* exception of get_agent (OPENAI_API_KEY not configured) after the user's
\* message was stored, caught by process_incoming_message itself.
\* The result: success, reply, the agent that handled the message, and the
\* messages table afterwards.
ProcessIncomingMessage(msgs, tbl, user, fail) ==
    LET stored == AddMessage(msgs, tbl, user, "user", NULL, now)
    IN  IF fail = "get_agent"
        THEN [success |-> FALSE, reply |-> "apology", agents |-> {},
              messages |-> stored]
        ELSE [success |-> TRUE,
              reply |-> IF fail = "agent" THEN "apology" ELSE "answer",
              agents |-> {SelectAgent(RegisteredArgument(user))},
              messages |-> AddMessage(stored, tbl, user, "ai", NULL, now)]

\* handle_webhook: a webhook that is no text message is acknowledged and
\* dropped; a text message is processed and its reply is sent if the result
\* has success and a reply.  The outbox entry is the send_message call; the
\* log entry lists the agent that handled the message.
HandleWebhook(user, text, fail) ==
    /\ Len(toolLog) < MaxToolCalls
    /\ LET response == ProcessIncomingMessage(messages, events, user, fail)
       IN  /\ messages' = IF text THEN response.messages ELSE messages
           /\ outbox' = IF text /\ response.success /\ response.reply # ""
                        THEN Append(outbox, [event |-> NULL, at |-> now,
                                             n |-> 0, kind |-> response.reply])
                        ELSE outbox
           /\ toolLog' = Append(toolLog,
                 ToolCall("handle_webhook",
                          IF text THEN fail ELSE "no text", NULL,
                          text /\ response.success,
                          IF text THEN response.agents ELSE {}))
    /\ UNCHANGED <<events, nextId, now, genLog, sweep, attempts, failedInit,
                   confirmedOk, workers>>

\* the webhooks of the model: a text message with each way to fail, and a
\* webhook that is no text message
WebhookInputs ==
    {[text |-> TRUE, fail |-> f] : f \in {"none", "agent", "get_agent"}}
    \cup {[text |-> FALSE, fail |-> "none"]}

\* the stored rows the tools work on, on 2024-01-10: a daily template of
\* owner 1 with instances of the 8th (sent, confirmed), the 9th (sent), the
\* 10th (sent) and the 11th, and a template of owner 2 with a sent instance
ToolEvents ==
    LET t1 == NewEvent(1, "text", DateTime(2024, 1, 1, 9, 0, 0), TRUE,
                       "daily", 1, NULL, {})
        t6 == NewEvent(2, "text", DateTime(2024, 1, 1, 11, 0, 0), TRUE,
                       "daily", 1, NULL, {})
        sent(row) == [row EXCEPT !.is_message_sent = TRUE]
    IN  <<t1,
          sent(NewInstance(t1, 1, DateTime(2024, 1, 9, 9, 0, 0))),
          sent(NewInstance(t1, 1, Clock(9, 0, 0))),
          NewInstance(t1, 1, DateTime(2024, 1, 11, 9, 0, 0)),
          [sent(NewInstance(t1, 1, DateTime(2024, 1, 8, 9, 0, 0)))
              EXCEPT !.is_confirmed = TRUE],
          t6,
          sent(NewInstance(t6, 6, Clock(11, 0, 0)))>>

ToolClock == {Clock(9, 40, 0), Clock(13, 0, 0)}

ToolInit ==
    /\ events = ToolEvents
    /\ nextId = Len(ToolEvents) + 1
    /\ messages = StoredMessages
    /\ now = Clock(9, 10, 0)
    /\ genLog = <<>>
    /\ sweep = Idle
    /\ outbox = <<>>
    /\ attempts = <<>>
    /\ failedInit = {}
    /\ confirmedOk = {}
    /\ toolLog = <<>>
    /\ workers = <<>>

ToolNext ==
    \/ Tick(ToolClock)
    \/ \E id \in {3, 5, nextId} : ConfirmReminder(id)
    \/ \E id \in {1, 4} : \E time \in {NULL, DateTime(2024, 1, 1, 10, 0, 0)} :
          UpdateReminder(id, time)
    \/ \E user \in Users : GetPendingReminders(user)
    \/ \E in \in WebhookInputs : HandleWebhook(1, in.text, in.fail)

ToolSpec == ToolInit /\ [][ToolNext]_vars

----------------------------------------------------------------------------
(* generate_instances called by two requests at a time (POST                *)
(* /generate-instances is served with no lock).  A call's existence checks  *)
(* see the committed rows and the rows of its own session, and its rows     *)
(* reach the table at its commit.  The loop of a call, with all its checks, *)
(* is one step here and the commit another.                                 *)

Workers == {1, 2}

IdleCall ==
    [kind |-> "idle", id |-> NULL, startDate |-> NULL, endDate |-> NULL,
     snapshot |-> NULL, ok |-> FALSE, created |-> <<>>]

\* the call up to db.session.commit(): the loop with its existence checks
GenCheck(w, id, startDate, endDate) ==
    /\ workers[w].kind = "idle"
    /\ LET out == GenOutcome(events, id, startDate, endDate)
       IN  workers' = [workers EXCEPT ![w] =
              [kind |-> "checked", id |-> id, startDate |-> startDate,
               endDate |-> endDate, snapshot |-> nextId,
               ok |-> out.ok, created |-> out.created]]
    /\ UNCHANGED <<events, nextId, messages, now, genLog, sweep, outbox,
                   attempts, failedInit, confirmedOk, toolLog>>

\* db.session.commit() and the return of the call
GenCommit(w) ==
    /\ workers[w].kind = "checked"
    /\ LET call == workers[w]
           tbl == CommitInstances(events, nextId, call.id, call.created)
       IN  /\ events' = tbl
           /\ nextId' = nextId + (Cardinality(DOMAIN tbl)
                                     - Cardinality(DOMAIN events))
           /\ genLog' = Append(genLog,
                 [id |-> call.id, startDate |-> call.startDate,
                  endDate |-> call.endDate,
                  template |-> IsTemplate(events, call.id),
                  ok |-> call.ok, error |-> "",
                  added |-> Len(call.created),
                  count |-> Len(call.created),
                  created |-> call.created,
                  keys |-> InstanceKeys(tbl)])
           /\ workers' = [workers EXCEPT ![w].kind = "done"]
    /\ UNCHANGED <<messages, now, sweep, outbox, attempts, failedInit,
                   confirmedOk, toolLog>>

\* the stored templates of the two requests: a daily and a weekly one
RaceTemplates ==
    <<NewEvent(1, "text", DateTime(2024, 1, 1, 9, 0, 0), TRUE,
               "daily", 1, NULL, {}),
      NewEvent(2, "text", DateTime(2024, 1, 3, 11, 0, 0), TRUE,
               "weekly", 1, NULL, {0, 2, 5})>>

RaceWindows ==
    LET day(d) == DateTime(2024, 1, d, 0, 0, 0)
    IN  {<<day(1), day(3)>>, <<day(2), day(7)>>, <<day(4), day(7)>>}

GenRaceInit ==
    /\ events = RaceTemplates
    /\ nextId = Len(RaceTemplates) + 1
    /\ messages = <<>>
    /\ now = DateTime(2024, 1, 1, 0, 0, 0)
    /\ genLog = <<>>
    /\ sweep = Idle
    /\ outbox = <<>>
    /\ attempts = <<>>
    /\ failedInit = {}
    /\ confirmedOk = {}
    /\ toolLog = <<>>
    /\ workers = [w \in Workers |-> IdleCall]

GenRaceNext ==
    \/ \E w \in Workers : \E id \in DOMAIN RaceTemplates :
          \E win \in RaceWindows : GenCheck(w, id, win[1], win[2])
    \/ \E w \in Workers : GenCommit(w)

GenRaceSpec == GenRaceInit /\ [][GenRaceNext]_vars

----------------------------------------------------------------------------
(* The sweeps run by two requests at a time (POST /send-reminders is served *)
(* with no lock).  An iteration of a loop is two steps here: the queries    *)
(* for the instance's messages, and the send with the writes after it.      *)

IdleSweep ==
    [kind |-> "idle", now |-> NULL, queue |-> <<>>, phase |-> "read",
     seen |-> <<>>, log |-> <<>>]

\* a sweep up to its loop: capture now, select
SweepStart(w, kind) ==
    /\ workers[w].kind = "idle"
    /\ workers' = [workers EXCEPT ![w] =
          [kind |-> kind, now |-> now,
           queue |-> IF kind = "initial"
                     THEN InIdOrder(UpcomingEvents(events, now))
                     ELSE InIdOrder(EventsWithMessages(events, now)),
           phase |-> IF kind = "initial" THEN "send" ELSE "read",
           seen |-> <<>>, log |-> <<>>]]
    /\ UNCHANGED <<events, nextId, messages, now, genLog, sweep, outbox,
                   attempts, failedInit, confirmedOk, toolLog>>

\* the escalation loop reads the messages of its instance
SweepRead(w) ==
    /\ workers[w].kind = "escalating"
    /\ workers[w].queue # <<>>
    /\ workers[w].phase = "read"
    /\ workers' = [workers EXCEPT ![w].phase = "send", ![w].seen = messages]
    /\ UNCHANGED <<events, nextId, messages, now, genLog, sweep, outbox,
                   attempts, failedInit, confirmedOk, toolLog>>

\* an iteration that looks at the messages again before it sends
SendDecisionFresh(seen, msgs, e, n, chatOk, sendOk) ==
    EscalationOutcome(msgs, e, n, chatOk, sendOk)

\* what the escalation iteration does, given the messages it read (seen)
\* and the messages stored by now (msgs): it goes by what it read
SendDecision(seen, msgs, e, n, chatOk, sendOk) ==
    EscalationOutcome(seen, e, n, chatOk, sendOk)

\* the rest of an iteration: guards, chat model, gateway, add_message and,
\* in the initial sweep, mark_message_sent
SweepSend(w, chatOk, sendOk) ==
    /\ workers[w].kind \in {"initial", "escalating"}
    /\ workers[w].queue # <<>>
    /\ workers[w].phase = "send"
    /\ LET me == workers[w]
           e == Head(me.queue)
           outcome == IF me.kind = "initial"
                      THEN InitialOutcome(chatOk, sendOk)
                      ELSE SendDecision(me.seen, messages, e, me.now,
                                        chatOk, sendOk)
           n == IF me.kind = "initial" THEN 1 ELSE MessageNumber(me.seen, e)
       IN  /\ messages' = IF outcome = "sent"
                          THEN AddMessage(messages, events,
                                          events[e].user_id, "ai", e, now)
                          ELSE messages
           /\ events' = IF outcome = "sent" /\ me.kind = "initial"
                        THEN MarkMessageSent(events, e) ELSE events
           /\ outbox' = IF outcome = "sent"
                        THEN Append(outbox, [event |-> e, at |-> now,
                                             n |-> n, kind |-> me.kind])
                        ELSE outbox
           /\ workers' = [workers EXCEPT ![w] =
                 [me EXCEPT
                    !.queue = RestAfter(@, outcome),
                    !.phase = IF me.kind = "initial" THEN "send" ELSE "read",
                    !.seen = <<>>,
                    !.log = Append(@,
                       [event |-> e,
                        count |-> Cardinality(EventMessages(me.seen, e)),
                        last |-> IF EventMessages(me.seen, e) # {}
                                 THEN LastMessageTime(me.seen, e) ELSE NULL,
                        chatOk |-> chatOk, sendOk |-> sendOk,
                        outcome |-> outcome])]]
    /\ UNCHANGED <<nextId, now, genLog, sweep, attempts, failedInit,
                   confirmedOk, toolLog>>

\* the loop is over
SweepEnd(w) ==
    /\ workers[w].kind \in {"initial", "escalating"}
    /\ workers[w].queue = <<>>
    /\ workers[w].phase # "done"
    /\ workers' = [workers EXCEPT ![w].phase = "done"]
    /\ UNCHANGED <<events, nextId, messages, now, genLog, sweep, outbox,
                   attempts, failedInit, confirmedOk, toolLog>>

\* 2024-01-10 10:30: instance 2 of 09:00 has had its reminders 1 to 4, at
\* 08:30, 09:00, 09:30 and 10:00, and instance 3 of 11:00 has had none
RaceEvents ==
    LET t1 == NewEvent(1, "text", DateTime(2024, 1, 1, 9, 0, 0), TRUE,
                       "daily", 1, NULL, {})
    IN  <<t1,
          [NewInstance(t1, 1, Clock(9, 0, 0)) EXCEPT !.is_message_sent = TRUE],
          NewInstance(t1, 1, Clock(11, 0, 0))>>

RaceMessages ==
    [i \in 1..4 |-> [user_id |-> 1, sent_by |-> "ai", event_id |-> 2,
                     timestamp |-> Clock(8, 30, 0) + Minutes(30 * (i - 1))]]

RaceOutbox ==
    [i \in 1..4 |-> [event |-> 2,
                     at |-> Clock(8, 30, 0) + Minutes(30 * (i - 1)),
                     n |-> i,
                     kind |-> IF i = 1 THEN "initial" ELSE "escalating"]]

RaceClock == {Clock(10, 40, 0)}

SweepRaceInit ==
    /\ events = RaceEvents
    /\ nextId = Len(RaceEvents) + 1
    /\ messages = RaceMessages
    /\ now = Clock(10, 30, 0)
    /\ genLog = <<>>
    /\ sweep = Idle
    /\ outbox = RaceOutbox
    /\ attempts = <<>>
    /\ failedInit = {}
    /\ confirmedOk = {}
    /\ toolLog = <<>>
    /\ workers = [w \in Workers |-> IdleSweep]

SweepRaceNext ==
    \/ Tick(RaceClock)
    \/ \E w \in Workers : \E kind \in {"initial", "escalating"} :
          SweepStart(w, kind)
    \/ \E w \in Workers : SweepRead(w)
    \/ \E w \in Workers : \E chatOk \in BOOLEAN : \E sendOk \in BOOLEAN :
          SweepSend(w, chatOk, sendOk)
    \/ \E w \in Workers : SweepEnd(w)

SweepRaceSpec == SweepRaceInit /\ [][SweepRaceNext]_vars

----------------------------------------------------------------------------
(* Properties of instance generation, checked under GenSpec *)

\* the recurrence rule alone: what generate_instances creates for the
\* window when the template has no instance yet
Enumerate(tbl, id, startDate, endDate) ==
    GenOutcome([e \in {x \in DOMAIN tbl : tbl[x].parent_event_id = NULL}
                   |-> tbl[e]], id, startDate, endDate)

SeqRange(q) == {q[i] : i \in 1..Len(q)}

C2_SecondCallSucceedsEmpty ==
    \A i \in 2..Len(genLog) :
        (/\ genLog[i].id = genLog[i - 1].id
         /\ genLog[i].startDate = genLog[i - 1].startDate
         /\ genLog[i].endDate = genLog[i - 1].endDate
         /\ genLog[i - 1].template)
        => /\ genLog[i].ok
           /\ genLog[i].count = 0
           /\ genLog[i].keys = genLog[i - 1].keys

\* C10: for two consecutive windows of whole days [a, b] and [b + 1 day, c]
\* the times generated for the first together with those generated for the second
\* are the times generated for [a, c].
C10_SplitWindowsAgree ==
    (/\ Len(genLog) >= 2
     /\ genLog[1].id = genLog[2].id
     /\ genLog[1].template
     /\ genLog[1].ok /\ genLog[2].ok
     /\ TimeOfDay(genLog[1].startDate) = 0
     /\ TimeOfDay(genLog[1].endDate) = 0
     /\ genLog[2].startDate = genLog[1].endDate + TicksPerDay)
    => SeqRange(genLog[1].created) \cup SeqRange(genLog[2].created)
         = SeqRange(Enumerate(events, genLog[1].id, genLog[1].startDate,
                              genLog[2].endDate).created)


\* the calendar dates (day numbers) of the window [startDate, endDate]
WindowDates(startDate, endDate) == DateOf(startDate)..DateOf(endDate)

\* the datetime of day number d at the time of day of datetime a
AtTimeOf(d, a) == d * TicksPerDay + TimeOfDay(a)

\* the last generate_instances call of the log
LastCall == genLog[Len(genLog)]

\* C11: for a monthly template anchored on a day that some month of the window
\* lacks, generate_instances succeeds, the template then has an instance on
\* every date of the window that has the anchor's day of month, and it has
\* no instance on any other day of month.
C11_MonthlySkipsShortMonths ==
    \A i \in 1..Len(genLog) :
        (/\ genLog[i].template
         /\ events[genLog[i].id].recurrence_frequency = "monthly"
         /\ events[genLog[i].id].recurrence_end_date = NULL
         /\ \E d \in WindowDates(genLog[i].startDate, genLog[i].endDate) :
               DaysInMonth(YearOf(d * TicksPerDay), MonthOf(d * TicksPerDay))
                  < DayOf(events[genLog[i].id].event_time))
        => /\ genLog[i].ok
           /\ \A d \in WindowDates(genLog[i].startDate, genLog[i].endDate) :
                 DayOf(d * TicksPerDay) = DayOf(events[genLog[i].id].event_time)
                 => <<genLog[i].id, AtTimeOf(d, events[genLog[i].id].event_time)>>
                       \in genLog[i].keys
           /\ \A k \in genLog[i].keys :
                 k[1] = genLog[i].id
                 => DayOf(k[2]) = DayOf(events[genLog[i].id].event_time)

\* C12: the first generate_instances call for a weekly template with a set of
\* weekdays creates exactly one instance for each date of the window whose
\* weekday is in the set, at the anchor's time of day, and no other.
C12_WeeklyDaysOfWeek ==
    \A i \in 1..Len(genLog) :
        (/\ genLog[i].template
         /\ events[genLog[i].id].recurrence_frequency = "weekly"
         /\ events[genLog[i].id].recurrence_days_of_week # {}
         /\ events[genLog[i].id].recurrence_end_date = NULL
         /\ \A j \in 1..(i - 1) : genLog[j].id # genLog[i].id)
        => /\ genLog[i].ok
           /\ SeqRange(genLog[i].created)
                = {AtTimeOf(d, events[genLog[i].id].event_time) :
                     d \in {x \in WindowDates(genLog[i].startDate,
                                              genLog[i].endDate) :
                              x % 7 \in events[genLog[i].id]
                                           .recurrence_days_of_week}}
           /\ Cardinality(SeqRange(genLog[i].created)) = genLog[i].count

\* C13: a generate_instances call with an id that is missing, or of an event
\* that is not recurring, or of an instance, fails and leaves the events
\* table as it was.
C13_NonTemplateRejected ==
    [][(Len(genLog') > Len(genLog)
        /\ ~IsTemplate(events, genLog'[Len(genLog')].id))
       => (~genLog'[Len(genLog')].ok /\ events' = events)]_vars

\* the last call was made with the id of a stored instance and was rejected
C13_Witness ==
    /\ genLog # <<>>
    /\ IsInstance(events, LastCall.id)
    /\ ~LastCall.ok
    /\ LastCall.error = "not a recurring template"

\* C14: a generate_instances call that fails after it has added rows to its
\* session reports failure and leaves the events table as it was.
C14_AllOrNothing ==
    [][(Len(genLog') > Len(genLog)
        /\ genLog'[Len(genLog')].error = "ValueError"
        /\ genLog'[Len(genLog')].added > 0)
       => /\ ~genLog'[Len(genLog')].ok
          /\ genLog'[Len(genLog')].count = 0
          /\ events' = events]_vars

\* the last call failed with a row in its session, and its template has no
\* instance
C14_Witness ==
    /\ genLog # <<>>
    /\ ~LastCall.ok
    /\ LastCall.added > 0
    /\ InstancesOf(events, LastCall.id) = {}

\* C26: for a weekly template recurrence_interval has no effect: a call
\* creates the rows it would create with any other interval, and afterwards
\* the template has an instance on every date the cursor visits whose
\* weekday matches, in every week of the window.
C26_WeeklyIgnoresInterval ==
    [][(/\ Len(genLog') > Len(genLog)
        /\ IsTemplate(events, genLog'[Len(genLog')].id)
        /\ events[genLog'[Len(genLog')].id].recurrence_frequency = "weekly")
       => LET call == genLog'[Len(genLog')]
              tpl == events[call.id]
              days == IF tpl.recurrence_days_of_week # {}
                      THEN tpl.recurrence_days_of_week
                      ELSE {DateOf(tpl.event_time) % 7}
          IN  /\ call.ok
              /\ \A k \in 1..3 :
                    GenOutcome([events EXCEPT ![call.id].recurrence_interval = k],
                               call.id, call.startDate, call.endDate).created
                       = call.created
              /\ \A d \in WindowDates(call.startDate, call.endDate) :
                    (/\ d % 7 \in days
                     /\ AtTimeOf(d, call.startDate) <= call.endDate)
                    => \E e \in InstancesOf(events', call.id) :
                          DateOf(events'[e].event_time) = d]_vars

\* the last call, for a weekly template with interval 2, created instances
\* of two weeks in a row
C26_Witness ==
    /\ genLog # <<>>
    /\ LastCall.template /\ LastCall.ok
    /\ events[LastCall.id].recurrence_frequency = "weekly"
    /\ events[LastCall.id].recurrence_interval = 2
    /\ \E i, j \in 1..Len(LastCall.created) :
          LastCall.created[j] = LastCall.created[i] + 7 * TicksPerDay

\* min(end, template.recurrence_end_date) of a logged call
CallLimit(call) ==
    IF events[call.id].recurrence_end_date # NULL
       /\ events[call.id].recurrence_end_date < call.endDate
    THEN events[call.id].recurrence_end_date
    ELSE call.endDate

\* C27 as claimed: every instance a generate_instances(template, start, end)
\* call creates has a time t with start <= t <= min(end, the template's
\* recurrence_end_date).
C27_InstancesInsideWindow ==
    \A i \in 1..Len(genLog) :
        genLog[i].template
        => \A t \in SeqRange(genLog[i].created) :
              genLog[i].startDate <= t /\ t <= CallLimit(genLog[i])

\* C27, amended: every instance a call creates has a calendar date from the
\* date of start to the date of min(end, recurrence_end_date) and the
\* template's hour, minute and second.
C27_InstanceDatesInsideWindow ==
    \A i \in 1..Len(genLog) :
        genLog[i].template
        => \A t \in SeqRange(genLog[i].created) :
              /\ DateOf(genLog[i].startDate) <= DateOf(t)
              /\ DateOf(t) <= DateOf(CallLimit(genLog[i]))
              /\ HmsOf(t) = HmsOf(events[genLog[i].id].event_time)

\* a call for a template whose end date is before the window's end has
\* created an instance on the date of that end date, and one before its
\* window's start
C27_Witness ==
    \E i \in 1..Len(genLog) :
        /\ genLog[i].template /\ genLog[i].ok
        /\ events[genLog[i].id].recurrence_end_date # NULL
        /\ CallLimit(genLog[i]) < genLog[i].endDate
        /\ \E t \in SeqRange(genLog[i].created) :
              DateOf(t) = DateOf(CallLimit(genLog[i]))
        /\ \E j \in 1..Len(genLog) :
              /\ genLog[j].id = genLog[i].id
              /\ \E t \in SeqRange(genLog[j].created) : t < genLog[j].startDate

\* C28: after a successful call for a template with an end date, the
\* template has an instance on every date of the window (a date on which
\* the window's start time of day is not after the window's end) that
\* matches its rule and whose instance time (the date at the anchor's time
\* of day) is not after the end date, the end date's own day included.
C28_EndDateInclusive ==
    \A i \in 1..Len(genLog) :
        (/\ genLog[i].template /\ genLog[i].ok
         /\ events[genLog[i].id].recurrence_end_date # NULL)
        => \A d \in WindowDates(genLog[i].startDate, genLog[i].endDate) :
              (/\ ShouldCreate(events[genLog[i].id], d * TicksPerDay)
               /\ AtTimeOf(d, genLog[i].startDate) <= genLog[i].endDate
               /\ AtTimeOf(d, events[genLog[i].id].event_time)
                     <= events[genLog[i].id].recurrence_end_date)
              => \E k \in genLog[i].keys :
                    k[1] = genLog[i].id /\ DateOf(k[2]) = d

\* C29: every generate_instances call for a template that add_event has
\* stored comes to an end and returns.
C29_EveryCallReturns ==
    \A i \in 1..Len(genLog) :
        genLog[i].template => genLog[i].error # "no return"

\* the stored rows with parent id and time t
RowsAt(id, t) ==
    {e \in DOMAIN events :
        events[e].parent_event_id = id /\ events[e].event_time = t}

\* C21 (GenRaceSpec): when two generate_instances calls for one template
\* have both made their existence checks before either has committed, every
\* instance time that both windows hold is stored twice after the two
\* commits: the commit does not look at the table again.
C21_RacingCallsDuplicate ==
    \A a \in DOMAIN workers : \A b \in DOMAIN workers :
        (/\ a # b
         /\ workers[a].kind = "done" /\ workers[b].kind = "done"
         /\ workers[a].id = workers[b].id
         /\ workers[a].snapshot = workers[b].snapshot)
        => \A t \in SeqRange(workers[a].created)
                      \cap SeqRange(workers[b].created) :
              Cardinality(RowsAt(workers[a].id, t)) >= 2

\* two calls for template 1 over the windows 1-3 and 2-7 January, both
\* checked before either committed, have both committed: the instances of
\* 2 and 3 January are stored twice and that of 1 January once
C21_Witness ==
    /\ workers # <<>>
    /\ \A w \in DOMAIN workers :
          workers[w].kind = "done" /\ workers[w].id = 1 /\ workers[w].ok
    /\ workers[1].snapshot = workers[2].snapshot
    /\ workers[1].endDate # workers[2].endDate
    /\ Cardinality(RowsAt(1, DateTime(2024, 1, 1, 9, 0, 0))) = 1
    /\ Cardinality(RowsAt(1, DateTime(2024, 1, 2, 9, 0, 0))) = 2
    /\ Cardinality(RowsAt(1, DateTime(2024, 1, 3, 9, 0, 0))) = 2


----------------------------------------------------------------------------
(* Properties of the agent's tools, checked under ToolSpec *)

C16_ConfirmMissingFails ==
    [][(/\ Len(toolLog') > Len(toolLog)
        /\ toolLog'[Len(toolLog')].tool = "confirm_reminder"
        /\ toolLog'[Len(toolLog')].arg \notin DOMAIN events)
       => /\ ~toolLog'[Len(toolLog')].ok
          /\ toolLog'[Len(toolLog')].arg \notin confirmedOk'
          /\ \A e \in DOMAIN events :
                e \in DOMAIN events'
                /\ events'[e].is_confirmed = events[e].is_confirmed]_vars

\* the last tool call tried to confirm an id no event has, and failed
C16_Witness ==
    /\ toolLog # <<>>
    /\ toolLog[Len(toolLog)].tool = "confirm_reminder"
    /\ toolLog[Len(toolLog)].arg \notin DOMAIN events
    /\ ~toolLog[Len(toolLog)].ok
    /\ \E e \in DOMAIN events :
          IsInstance(events, e) /\ ~events[e].is_confirmed

\* C17: update_reminder on a recurring template deletes the template's
\* instances whose time is after the moment of the update, leaves its other
\* instances as they are and gives the template the new event time.
C17_UpdateDropsFutureInstances ==
    [][(/\ Len(toolLog') > Len(toolLog)
        /\ toolLog'[Len(toolLog')].tool = "update_reminder"
        /\ IsTemplate(events, toolLog'[Len(toolLog')].arg))
       => /\ \A e \in InstancesOf(events, toolLog'[Len(toolLog')].arg) :
                IF events[e].event_time > now
                THEN e \notin DOMAIN events'
                ELSE e \in DOMAIN events' /\ events'[e] = events[e]
          /\ toolLog'[Len(toolLog')].time # NULL
             => events'[toolLog'[Len(toolLog')].arg].event_time
                   = toolLog'[Len(toolLog')].time]_vars

\* C19: get_pending_reminders lists exactly the owner's instances that are
\* unconfirmed and sent and whose time is from 3 hours before now to 30
\* minutes after now.
C19_PendingWithinWindow ==
    [][(/\ Len(toolLog') > Len(toolLog)
        /\ toolLog'[Len(toolLog')].tool = "get_pending_reminders")
       => toolLog'[Len(toolLog')].listed
            = {e \in DOMAIN events :
                 /\ events[e].user_id = toolLog'[Len(toolLog')].arg
                 /\ ~events[e].is_confirmed
                 /\ events[e].is_message_sent
                 /\ events[e].parent_event_id # NULL
                 /\ now - Minutes(EscalationHours * 60)
                       <= EventTimeUtc(events, e)
                 /\ EventTimeUtc(events, e) <= now + Minutes(LeadMinutes)}]_vars

\* C23: whenever the processing of an inbound text message fails, inside
\* the agent or elsewhere in process_incoming_message, handle_webhook sends
\* the user the apology through the gateway.
C23_ApologyOnFailure ==
    [][(/\ Len(toolLog') > Len(toolLog)
        /\ toolLog'[Len(toolLog')].tool = "handle_webhook"
        /\ toolLog'[Len(toolLog')].arg \in {"agent", "get_agent"})
       => /\ Len(outbox') = Len(outbox) + 1
          /\ outbox'[Len(outbox')].kind = "apology"]_vars

----------------------------------------------------------------------------
(* Properties of the sweeps *)

\* positions in the outbox of the reminders sent for instance e
SentFor(e) == {i \in 1..Len(outbox) : outbox[i].event = e}

AttemptedEvents == [i \in 1..Len(attempts) |-> attempts[i].event]

StartsSweep(kind) == sweep.kind = "idle" /\ sweep'.kind = kind

C5_NoReminderOnceConfirmed ==
    [][/\ Len(outbox') > Len(outbox)
          => outbox'[Len(outbox')].event \notin confirmedOk
       /\ Len(messages') > Len(messages)
          => messages'[Len(messages')].event_id \notin confirmedOk]_vars

\* C5 as amended (Spec): a sweep that selects its candidates after
\* confirm_event(e) has returned success does not select e, and a sweep
\* sends reminders and appends messages only for the instances it selected.
C5_NoSelectionOnceConfirmed ==
    [][/\ (StartsSweep("initial") \/ StartsSweep("escalating"))
          => SeqRange(sweep'.selected) \cap confirmedOk = {}
       /\ Len(outbox') > Len(outbox)
          => outbox'[Len(outbox')].event \in SeqRange(sweep.selected)
       /\ Len(messages') > Len(messages)
          => messages'[Len(messages')].event_id
                \in SeqRange(sweep.selected)]_vars

\* an initial sweep has left out the unsent instance 2, due within its
\* lead window, because it was confirmed before the sweep began
C5_Witness ==
    /\ sweep.kind = "initial"
    /\ 2 \in confirmedOk
    /\ ~events[2].is_message_sent
    /\ sweep.now < events[2].event_time
    /\ events[2].event_time <= sweep.now + Minutes(30)
    /\ 2 \notin SeqRange(sweep.selected)

\* C6 (Spec): the initial sweep selects exactly the events that are unsent,
\* unconfirmed, have a parent, and whose time in UTC is after now and at
\* most 30 minutes after now.
C6_InitialSelection ==
    [][StartsSweep("initial")
       => SeqRange(sweep'.selected) =
            {e \in DOMAIN events :
                /\ ~events[e].is_message_sent
                /\ ~events[e].is_confirmed
                /\ events[e].parent_event_id # NULL
                /\ LET utc == events[e].event_time
                              - UtcOffsetMinutes(events[e].user_id)
                                * TicksPerMinute
                   IN  now < utc /\ utc <= now + 30 * TicksPerMinute}]_vars

\* a sweep at 08:30 has selected instance 2, due at 09:00, and has left out
\* instance 4, due a fraction of a second after 09:00 UTC
C6_Witness ==
    /\ sweep.kind = "initial"
    /\ sweep.now = Clock(8, 30, 0)
    /\ EventTimeUtc(events, 2) = sweep.now + Minutes(30)
    /\ 2 \in SeqRange(sweep.selected)
    /\ ~events[4].is_confirmed /\ ~events[4].is_message_sent
    /\ 4 \notin SeqRange(sweep.selected)

\* C18: a one-time event (no parent, not recurring) that is unsent and
\* unconfirmed and whose time is in the next 30 minutes is selected by the
\* initial sweep that starts then.
C18_OneTimeEventSelected ==
    [][StartsSweep("initial")
       => \A e \in DOMAIN events :
             (/\ events[e].parent_event_id = NULL
              /\ ~events[e].is_recurring
              /\ ~events[e].is_message_sent
              /\ ~events[e].is_confirmed
              /\ now < EventTimeUtc(events, e)
              /\ EventTimeUtc(events, e) <= now + Minutes(LeadMinutes))
             => e \in SeqRange(sweep'.selected)]_vars

\* C20: a sweep reads the stored time L of an instance in the zone of its
\* owner, whose offset from UTC is d: the initial sweep takes an unsent,
\* unconfirmed instance exactly when now < L - d <= now + 30 minutes, the
\* escalation sweep takes a sent, unconfirmed instance exactly when
\* now - 3 hours <= L - d <= now, and two instances with one stored time
\* and owners more than 30 minutes apart are never taken by one initial sweep.
C20_OwnerZoneSelection ==
    [][LET utc(e) == events[e].event_time
                        - Minutes(UtcOffsetMinutes(events[e].user_id))
           open(e) == events[e].parent_event_id # NULL
                      /\ ~events[e].is_confirmed
       IN  /\ StartsSweep("initial")
              => /\ \A e \in DOMAIN events :
                       (open(e) /\ ~events[e].is_message_sent)
                       => (e \in SeqRange(sweep'.selected)
                             <=> (now < utc(e)
                                  /\ utc(e) <= now + Minutes(30)))
                 /\ \A e1, e2 \in SeqRange(sweep'.selected) :
                       events[e1].event_time = events[e2].event_time
                       => events[e1].user_id = events[e2].user_id
           /\ StartsSweep("escalating")
              => \A e \in DOMAIN events :
                    (open(e) /\ events[e].is_message_sent)
                    => (e \in SeqRange(sweep'.selected)
                          <=> (now - Minutes(180) <= utc(e)
                               /\ utc(e) <= now))]_vars

\* an initial sweep at 08:45 UTC has taken instance 2 (owner 1, stored
\* 09:00) and instance 4 (owner 2, stored just after 11:00, more than two
\* hours ahead on the sweep's clock) and has left out instance 6 (owner 2,
\* stored 09:00 like instance 2)
C20_Witness ==
    /\ sweep.kind = "initial"
    /\ sweep.now = Clock(8, 45, 0)
    /\ {2, 4} \subseteq SeqRange(sweep.selected)
    /\ events[4].event_time > sweep.now + Minutes(120)
    /\ 6 \notin SeqRange(sweep.selected)
    /\ events[6].event_time = events[2].event_time
    /\ events[6].user_id # events[2].user_id
    /\ ~events[6].is_confirmed /\ ~events[6].is_message_sent

\* C7 (LifeSpec): an iteration of the escalation loop goes on to send
\* exactly when its instance has fewer than 5 reminder messages and none of
\* them is less than 30 minutes old, and the reminder it sends carries the
\* number of those messages plus one.
C7_EscalationGuards ==
    [][(sweep.kind = "escalating" /\ Len(attempts') = Len(attempts) + 1)
       => LET e == Head(sweep.queue)
              prior == {i \in 1..Len(messages) :
                          messages[i].event_id = e
                          /\ messages[i].sent_by = "ai"}
              due == /\ Cardinality(prior) < 5
                     /\ \A i \in prior :
                           sweep.now - messages[i].timestamp
                              >= 30 * TicksPerMinute
              outcome == attempts'[Len(attempts')].outcome
          IN  /\ outcome = "skipped" <=> ~due
              /\ outcome = "sent"
                 => /\ Len(outbox') = Len(outbox) + 1
                    /\ outbox'[Len(outbox')].event = e
                    /\ outbox'[Len(outbox')].n = Cardinality(prior) + 1
                    /\ Len(messages') = Len(messages) + 1
                    /\ messages'[Len(messages')].event_id = e]_vars

\* reminder number 3 has just been sent by a sweep that began 31 minutes
\* after reminder number 2
C7_Witness ==
    /\ sweep.kind = "escalating"
    /\ Len(attempts) = 1 /\ attempts[1].outcome = "sent"
    /\ Len(outbox) >= 2
    /\ outbox[Len(outbox)].n = 3
    /\ outbox[Len(outbox) - 1].n = 2
    /\ outbox[Len(outbox) - 1].event = outbox[Len(outbox)].event
    /\ sweep.now - outbox[Len(outbox) - 1].at = Minutes(31)

\* C8 (Spec): an instance whose initial reminder failed in the chat model
\* or the gateway has no message and is still unsent, and the next initial
\* sweep that finds it unconfirmed within its lead window selects it again.
C8_FailedInitialIsRetried ==
    [][/\ \A e \in failedInit' :
             /\ ~events'[e].is_message_sent
             /\ \A i \in 1..Len(messages') : messages'[i].event_id # e
       /\ StartsSweep("initial")
          => \A e \in failedInit :
                (/\ ~events[e].is_confirmed
                 /\ now < EventTimeUtc(events, e)
                 /\ EventTimeUtc(events, e) <= now + Minutes(30))
                => e \in SeqRange(sweep'.selected)]_vars

\* a later initial sweep has selected an instance whose reminder had failed
C8_Witness ==
    /\ sweep.kind = "initial"
    /\ attempts = <<>>
    /\ \E e \in failedInit : e \in SeqRange(sweep.selected)

\* C9 (Spec): in a sweep every selected instance is attempted once, in
\* turn, whatever happened to the instances before it.
C9_EverySelectedAttemptedOnce ==
    sweep.kind # "idle" => AttemptedEvents \o sweep.queue = sweep.selected

\* a sweep of two instances in which the first failed and the second was
\* attempted all the same
C9_Witness ==
    /\ sweep.kind # "idle"
    /\ Len(sweep.selected) = 2
    /\ Len(attempts) = 2
    /\ attempts[1].outcome = "failed"
    /\ sweep.queue = <<>>

C25_EscalationWithinThreeHours ==
    [][(/\ Len(outbox') > Len(outbox)
        /\ outbox'[Len(outbox')].kind = "escalating")
       => LET e == outbox'[Len(outbox')].event
              utc == events[e].event_time
                        - Minutes(UtcOffsetMinutes(events[e].user_id))
          IN  /\ sweep.kind = "escalating"
              /\ sweep.now - Minutes(3 * 60) <= utc
              /\ utc <= sweep.now]_vars

\* an escalation reminder sent by the sweep of exactly 3 hours after the
\* event's time, and a later sweep whose selection is empty although the
\* instance is still sent and unconfirmed
C25_Witness ==
    /\ \E i \in 1..Len(outbox) :
          /\ outbox[i].kind = "escalating"
          /\ outbox[i].at = EventTimeUtc(events, outbox[i].event)
                               + Minutes(3 * 60)
    /\ sweep.kind = "escalating"
    /\ sweep.now > EventTimeUtc(events, 2) + Minutes(3 * 60)
    /\ events[2].is_message_sent /\ ~events[2].is_confirmed
    /\ sweep.selected = <<>>

C22_SweepGoesByWhatItRead ==
    \A w \in DOMAIN workers :
        \A i \in 1..Len(workers[w].log) :
            LET it == workers[w].log[i]
            IN  (it.outcome = "sent")
                <=> /\ it.chatOk /\ it.sendOk
                    /\ workers[w].kind = "escalating"
                       => /\ it.count < 5
                          /\ (it.count = 0
                              \/ TruncMinutes(workers[w].now - it.last) >= 30)

\* two escalation sweeps have both read 4 reminders for instance 2 and both
\* sent reminder 5: the instance has 6 reminders, the last two of them less
\* than 30 minutes apart
C22_Witness ==
    /\ workers # <<>>
    /\ \A w \in DOMAIN workers :
          /\ workers[w].kind = "escalating"
          /\ workers[w].phase = "done"
          /\ \E i \in 1..Len(workers[w].log) :
                /\ workers[w].log[i].event = 2
                /\ workers[w].log[i].count = 4
                /\ workers[w].log[i].outcome = "sent"
    /\ Cardinality(EventMessages(messages, 2)) = 6
    /\ Cardinality(SentFor(2)) = 6
    /\ outbox[5].n = 5 /\ outbox[6].n = 5
    /\ outbox[6].at - outbox[5].at < Minutes(30)

----------------------------------------------------------------------------
(* The initial sweep with an add_message that may fail: its except branch  *)
(* rolls back and returns success False, and the loop goes on to           *)
(* mark_message_sent without looking at the result                         *)

StoreFaultNext ==
    \/ Tick(SweepClock)
    \/ StartInitialSweep
    \/ \E chatOk \in BOOLEAN : \E sendOk \in BOOLEAN :
          \E storeOk \in BOOLEAN : InitialIteration(chatOk, sendOk, storeOk)
    \/ StartEscalationSweep
    \/ \E chatOk \in BOOLEAN : \E sendOk \in BOOLEAN :
          EscalationStep(chatOk, sendOk)
    \/ FinishSweep

StoreFaultSpec == Init /\ [][StoreFaultNext]_vars

\* C31 (StoreFaultSpec): an instance marked is_message_sent has at least one
\* reminder row (sent_by 'ai') linked to it, and the gateway accepted a
\* send for it before the mark was set.
C31_SentInstanceHasMessage ==
    \A e \in DOMAIN events :
        (events[e].parent_event_id # NULL /\ events[e].is_message_sent)
            => /\ EventMessages(messages, e) # {}
               /\ SentFor(e) # {}

----------------------------------------------------------------------------
(* One run of main: the initial sweep, then the escalation sweep, each     *)
(* with its own utcnow(); time passes while the loops call the chat model  *)
(* and the gateway.  attempts keeps the iterations of the whole run        *)

\* main goes from send_initial_reminders to send_escalating_reminders
RunEscalation ==
    /\ sweep.kind = "initial"
    /\ sweep.queue = <<>>
    /\ LET sel == InIdOrder(EventsWithMessages(events, now))
       IN  sweep' = [kind |-> "escalating", now |-> now,
                     selected |-> sel, queue |-> sel]
    /\ UNCHANGED <<events, nextId, messages, now, genLog, outbox, attempts,
                   failedInit, confirmedOk, toolLog, workers>>

\* main returns after the escalation sweep
EndRun ==
    /\ sweep.kind = "escalating"
    /\ FinishSweep

RunNext ==
    \/ Tick(SweepClock)
    \/ StartInitialSweep
    \/ \E chatOk \in BOOLEAN : \E sendOk \in BOOLEAN :
          InitialStep(chatOk, sendOk)
    \/ RunEscalation
    \/ \E chatOk \in BOOLEAN : \E sendOk \in BOOLEAN :
          EscalationStep(chatOk, sendOk)
    \/ EndRun

RunSpec == Init /\ [][RunNext]_vars

----------------------------------------------------------------------------
(* An initial sweep whose process ends inside an iteration.  The iteration *)
(* is three calls in a row, the gateway send, add_message and              *)
(* mark_message_sent, each with its own commit and nothing that joins them *)

\* how far the iteration had come when the process ended: before the
\* gateway took the message, after it, or after add_message's commit
KillStages == {"chat", "sent", "stored"}

\* processes are ended only while the gateway has taken fewer messages
\* than this
MaxKillOutbox == 3

TerminateInitial(stage) ==
    /\ sweep.kind = "initial"
    /\ sweep.queue # <<>>
    /\ Len(outbox) < MaxKillOutbox
    /\ LET e == Head(sweep.queue)
       IN  /\ outbox' = IF stage \in {"sent", "stored"}
                        THEN Append(outbox, [event |-> e, at |-> now,
                                             n |-> 1, kind |-> "initial"])
                        ELSE outbox
           /\ messages' = IF stage = "stored"
                          THEN AddMessage(messages, events,
                                          events[e].user_id, "ai", e, now)
                          ELSE messages
           /\ attempts' = Append(attempts,
                                 [event |-> e, outcome |-> "terminated"])
    /\ sweep' = [sweep EXCEPT !.kind = "terminated"]
    /\ UNCHANGED <<events, nextId, now, genLog, failedInit, confirmedOk,
                   toolLog, workers>>

\* the next run of the sweep, a new process: capture now, select
RestartInitialSweep ==
    /\ sweep.kind = "terminated"
    /\ LET sel == InIdOrder(UpcomingEvents(events, now))
       IN  sweep' = [kind |-> "initial", now |-> now,
                     selected |-> sel, queue |-> sel]
    /\ attempts' = <<>>
    /\ UNCHANGED <<events, nextId, messages, now, genLog, outbox,
                   failedInit, confirmedOk, toolLog, workers>>

KillNext ==
    \/ Tick(SweepClock)
    \/ StartInitialSweep
    \/ \E chatOk \in BOOLEAN : \E sendOk \in BOOLEAN :
          InitialStep(chatOk, sendOk)
    \/ \E stage \in KillStages : TerminateInitial(stage)
    \/ RestartInitialSweep
    \/ FinishSweep

KillSpec == Init /\ [][KillNext]_vars

\* C33 (KillSpec): when a sweep is terminated part-way through its pass,
\* the next sweep selects again every instance the terminated sweep had not
\* processed, and no instance receives the same reminder a second time.
C33_TerminatedSweepRecovers ==
    [][ /\ (sweep.kind = "terminated" /\ sweep'.kind = "initial")
            => \A i \in 2..Len(sweep.queue) :
                  \E j \in 1..Len(sweep'.selected) :
                      sweep'.selected[j] = sweep.queue[i]
        /\ \A i \in 1..Len(outbox') : \A j \in 1..Len(outbox') :
              (i < j /\ outbox'[i].event = outbox'[j].event)
                  => ~(outbox'[i].kind = outbox'[j].kind
                       /\ outbox'[i].n = outbox'[j].n) ]_vars

----------------------------------------------------------------------------

\* C34 (GenSpec): every stored event has a recurrence_frequency exactly when
\* is_recurring is true, and it is then one of daily, weekly, monthly and
\* yearly: add_event stores nothing for a recurring event whose frequency
\* is missing or another word.
C34_FrequencyIffRecurring ==
    \A e \in DOMAIN events :
        /\ (events[e].recurrence_frequency # "none") <=> events[e].is_recurring
        /\ events[e].is_recurring
              => events[e].recurrence_frequency \in Frequencies

\* a template, a one-time event and an instance are stored
C34_Witness ==
    /\ \E e \in DOMAIN events : events[e].is_recurring
    /\ \E e \in DOMAIN events :
          ~events[e].is_recurring /\ events[e].parent_event_id = NULL
    /\ \E e \in DOMAIN events : events[e].parent_event_id # NULL

\* C35 (GenSpec): for a daily template with interval k >= 1, after any
\* sequence of generate_instances calls, the calendar dates of any two
\* instances of the template differ by a multiple of k days.
C35_DailyDatesStepByInterval ==
    \A a \in DOMAIN events : \A b \in DOMAIN events :
        LET p == events[a].parent_event_id
        IN  (/\ p # NULL
             /\ events[b].parent_event_id = p
             /\ events[p].recurrence_frequency = "daily"
             /\ events[p].recurrence_interval >= 1)
            => (DateOf(events[a].event_time) - DateOf(events[b].event_time))
                 % events[p].recurrence_interval = 0

\* C36 (GenSpec): after any sequence of generation runs, whose windows
\* start at the instant of the run with its sub-second part, a template has
\* at most one instance on a calendar date: a later run adds no second
\* instance for a date an earlier run covered.
C36_OneInstancePerDate ==
    \A a \in DOMAIN events : \A b \in DOMAIN events :
        (/\ a # b
         /\ events[a].parent_event_id # NULL
         /\ events[a].parent_event_id = events[b].parent_event_id)
        => DateOf(events[a].event_time) # DateOf(events[b].event_time)

----------------------------------------------------------------------------
(* The sender on its schedule: main runs every 30 minutes, the chat model  *)
(* and the gateway always succeed, nobody confirms.  A run captures now at *)
(* the start of each sweep; the calls of an iteration take time, so the    *)
(* message row is stamped later than the now of its sweep                  *)

\* the period of the schedule ("Runs every 30 minutes"), in minutes
CronMinutes == 30

\* the most time, in ticks, the calls of one run take in all
MaxWorkTicks == 1

\* the last instant of the schedule in the model
CronLast == Clock(13, 0, 0)

\* the instant of the run at or before t, and of the run after it
SlotOf(t) == (t \div Minutes(CronMinutes)) * Minutes(CronMinutes)
NextSlot(t) == SlotOf(t) + Minutes(CronMinutes)

\* the chat model or the gateway takes its time before an iteration's send
WorkTick ==
    /\ sweep.kind \in {"initial", "escalating"}
    /\ sweep.queue # <<>>
    /\ now - SlotOf(now) < MaxWorkTicks
    /\ now' = now + 1
    /\ UNCHANGED <<events, nextId, messages, genLog, sweep, outbox,
                   attempts, failedInit, confirmedOk, toolLog, workers>>

\* main returns and the scheduler starts the next run half an hour after
\* the last one
CronWait ==
    /\ sweep.kind = "escalating"
    /\ sweep.queue = <<>>
    /\ NextSlot(now) <= CronLast
    /\ now' = NextSlot(now)
    /\ sweep' = Idle
    /\ attempts' = <<>>
    /\ UNCHANGED <<events, nextId, messages, genLog, outbox, failedInit,
                   confirmedOk, toolLog, workers>>

CronInit ==
    /\ events = LifeEvents
    /\ nextId = Len(LifeEvents) + 1
    /\ messages = StoredMessages
    /\ now = Clock(8, 0, 0)
    /\ genLog = <<>>
    /\ sweep = Idle
    /\ outbox = <<>>
    /\ attempts = <<>>
    /\ failedInit = {}
    /\ confirmedOk = {}
    /\ toolLog = <<>>
    /\ workers = <<>>

CronNext ==
    \/ StartInitialSweep
    \/ InitialStep(TRUE, TRUE)
    \/ RunEscalation
    \/ EscalationStep(TRUE, TRUE)
    \/ WorkTick
    \/ CronWait

CronSpec == CronInit /\ [][CronNext]_vars

\* the scheduler and the process keep going: a run that can take a step
\* takes one
CronFairSpec == CronSpec /\ WF_vars(CronNext)

\* C38 (CronFairSpec): with the sweeps run every 30 minutes, every send
\* succeeding and the owner never confirming, the instance due at 09:00
\* eventually has all 5 reminders, the initial one and the escalations 2 to
\* 5, each sent while its event time is within the last 3 hours.
C38_AllFiveReminders ==
    <>(/\ {outbox[i].n : i \in SentFor(2)} = 1..5
       /\ \A i \in SentFor(2) :
             outbox[i].at <= EventTimeUtc(events, 2)
                               + Minutes(EscalationHours * 60))

----------------------------------------------------------------------------

\* C39 (ToolSpec): an inbound text message from a fully registered user is
\* handled by the full agent, the one that holds the create, confirm and
\* pending-reminder tools, and by the registration agent only when the
\* sender is not registered.  The sender of the model's webhooks is owner 1.
C39_RegisteredUserGetsFullAgent ==
    [][(/\ Len(toolLog') > Len(toolLog)
        /\ toolLog'[Len(toolLog')].tool = "handle_webhook"
        /\ toolLog'[Len(toolLog')].arg \in {"none", "agent"})
       => toolLog'[Len(toolLog')].listed
            = {IF IsRegistered(1) THEN "full" ELSE "registration"}]_vars

====
